---- MODULE Spec2Model ----
(***************************************************************************)
(* demclean: triage of demo recordings by their event annotations.         *)
(*                                                                         *)
(*   src/src/ds.rs    collector for per-demo JSON sidecars ("demosupport") *)
(*   src/src/prec.rs  collector for the shared PREC log KillStreaks.txt    *)
(*   src/src/main.rs  sidecar walk, then the output stage (move/copy,      *)
(*                    export of a path manifest)                           *)
(*                                                                         *)
(* Text is modelled as a sequence of one-character strings, so that the    *)
(* whitespace removal, the regular expressions, the letter-case            *)
(* conversions and the path operations of the source are computed on       *)
(* characters, as the code computes them.                                  *)
(***************************************************************************)
EXTENDS Integers, Sequences, FiniteSets, TLC

VARIABLES
    mode,            \* the part that runs: "ds", "main", "prec", "fn", "out"
    filter,          \* include_ks_only / filter_ks_only
    ci,              \* the file system compares names case-insensitively
    dirs,            \* directory -> listing (read_dir order) of file names
    json,            \* ds: demo file name -> state of its .json sidecar
    ks,              \* prec: directories holding KillStreaks.txt, and its matches
    event_map,       \* prec: set of <<path, label>>, the HashMap<PathBuf, HashSet<&str>>
    walk_dir,        \* directory the read_dir loop walks
    idx,             \* position of the read_dir loop / of the file loop
    included_files,  \* Vec<IncludedDemo> / Vec<IncludedFile>
    out,             \* the diagnostics printed, one record per line
    result,          \* "none" while running, then "Ok" or "Err"
    pc,              \* position in the program
    content,         \* fn: a sidecar's content handed to should_include_demo
    events,          \* fn: the Option<&HashSet<&str>> handed to should_include_demo
    decision,        \* fn: the (bool, reason) pairs the functions returned
    fs,              \* out: path -> identity of the file stored there
    plan,            \* out: the actions left to run, and the answers to the prompts
    manifest         \* out: the lines written to the export file

vars == <<mode, filter, ci, dirs, json, ks, event_map, walk_dir, idx,
          included_files, out, result, pc, content, events, decision,
          fs, plan, manifest>>

-----------------------------------------------------------------------------
(* Characters and strings                                                  *)

\* bounds of the model
MaxPieces == 4
MaxLabels == 2
MaxDemos == 2
MaxLogLines == 2
MaxFiles == 2

UpperChars == <<"A","B","C","D","E","F","G","H","I","J","K","L","M",
                "N","O","P","Q","R","S","T","U","V","W","X","Y","Z">>
LowerChars == <<"a","b","c","d","e","f","g","h","i","j","k","l","m",
                "n","o","p","q","r","s","t","u","v","w","x","y","z">>
Digits == {"0","1","2","3","4","5","6","7","8","9"}

\* char::is_whitespace, on the characters the model uses
is_whitespace(c) == c \in {" ", "\t", "\n", "\r"}

\* char::to_ascii_lowercase
LowerOf ==
    [u \in { UpperChars[i] : i \in DOMAIN UpperChars } |->
        LowerChars[CHOOSE i \in DOMAIN UpperChars : UpperChars[i] = u]]

to_ascii_lowercase(c) == IF c \in DOMAIN LowerOf THEN LowerOf[c] ELSE c

\* str::to_lowercase (the model's text is ASCII)
to_lowercase(s) == [i \in 1..Len(s) |-> to_ascii_lowercase(s[i])]

\* str::eq_ignore_ascii_case
eq_ignore_ascii_case(a, b) == to_lowercase(a) = to_lowercase(b)

\* s[from..] starts with the literal lit
StartsAt(s, from, lit) ==
    /\ from >= 1
    /\ from + Len(lit) - 1 <= Len(s)
    /\ \A k \in 1..Len(lit) : s[from + k - 1] = lit[k]

RECURSIVE Concat(_)
Concat(ss) == IF ss = <<>> THEN <<>> ELSE Head(ss) \o Concat(Tail(ss))

\* String::retain(|c| !c.is_whitespace())
retain_not_whitespace(s) == SelectSeq(s, LAMBDA c : ~is_whitespace(c))

-----------------------------------------------------------------------------
(* Sidecar variant: src/src/ds.rs (and the same function in main.rs)       *)

\* the literal part of EVENT_EXTRACT_RE before the optional whitespace
NAME_KEY == <<"\"", "n", "a", "m", "e", "\"", ":">>

\* const EMPTY_EVENTS: &str = r#"{"events":[]}"#
EMPTY_EVENTS ==
    <<"{", "\"", "e", "v", "e", "n", "t", "s", "\"", ":", "[", "]", "}">>

KILLSTREAK == <<"k", "i", "l", "l", "s", "t", "r", "e", "a", "k">>

\* first position at or after p that holds no whitespace (Len(s) + 1 if none)
SkipWhitespace(s, p) ==
    CHOOSE q \in p..(Len(s) + 1) :
        /\ q = Len(s) + 1 \/ ~is_whitespace(s[q])
        /\ \A r \in p..(q - 1) : is_whitespace(s[r])

\* positions at which the lazy group (.*?) started at c0 can stop: the two
\* characters `",` follow, and `.` has matched no line feed on the way
CaptureStops(s, c0) ==
    { j \in c0..(Len(s) - 1) :
        /\ s[j] = "\"" /\ s[j + 1] = ","
        /\ \A r \in c0..(j - 1) : s[r] # "\n" }

\* one attempt of  "name":\s?+"(.*?)",  anchored at position i
EventMatchAt(s, i) ==
    IF ~StartsAt(s, i, NAME_KEY) THEN [ok |-> FALSE]
    ELSE LET q == SkipWhitespace(s, i + Len(NAME_KEY))
         IN  IF q > Len(s) \/ s[q] # "\"" THEN [ok |-> FALSE]
             ELSE LET stops == CaptureStops(s, q + 1)
                  IN  IF stops = {} THEN [ok |-> FALSE]
                      ELSE LET j == CHOOSE x \in stops : \A y \in stops : x <= y
                           IN  [ok |-> TRUE,
                                cap |-> SubSeq(s, q + 1, j - 1),
                                next |-> j + 2]

\* Regex::captures_iter: the leftmost matches, none overlapping another
RECURSIVE captures_from(_, _)
captures_from(s, from) ==
    LET starts == { i \in from..Len(s) : EventMatchAt(s, i).ok }
    IN  IF starts = {} THEN <<>>
        ELSE LET i == CHOOSE x \in starts : \A y \in starts : x <= y
                 m == EventMatchAt(s, i)
             IN  <<m.cap>> \o captures_from(s, m.next)

\* mutation: only the first match is looked at
captures_first_only(s) ==
    LET all == captures_from(s, 1)
    IN  IF all = <<>> THEN <<>> ELSE <<Head(all)>>

captures_iter(s) == captures_from(s, 1)

\* mutation: the content is compared as read, whitespace included
strip_nothing(s) == s

\* content.retain(|c| !c.is_whitespace()), the first statement of the function
strip_content(s) == retain_not_whitespace(s)

NoEvents == "no events"
HasEvents == "has events"
OnlyKillstreaks == "has only killstreak events"
HasCustomBookmark == "has custom bookmark"
ReadFailed == "failed to read json"

\* mutation: under the default policy a demo whose labels are all
\* killstreaks is kept
ds_should_include_demo_keep_ks(c, filter_ks_only) ==
    LET stripped == strip_content(c)
        caps == captures_iter(stripped)
    IN  IF stripped = EMPTY_EVENTS THEN <<TRUE, NoEvents>>
        ELSE IF \E k \in 1..Len(caps) : ~eq_ignore_ascii_case(caps[k], KILLSTREAK)
        THEN <<FALSE, IF filter_ks_only THEN HasCustomBookmark ELSE HasEvents>>
        ELSE <<TRUE, OnlyKillstreaks>>

\* ds.rs should_include_demo(content, filter_ks_only) -> (bool, reason)
ds_should_include_demo(c, filter_ks_only) ==
    LET stripped == strip_content(c)
    IN  IF stripped = EMPTY_EVENTS THEN <<TRUE, NoEvents>>
        ELSE IF filter_ks_only
        THEN LET caps == captures_iter(stripped)
             IN  IF \E k \in 1..Len(caps) :
                        ~eq_ignore_ascii_case(caps[k], KILLSTREAK)
                 THEN <<FALSE, HasCustomBookmark>>
                 ELSE <<TRUE, OnlyKillstreaks>>
        ELSE <<FALSE, HasEvents>>

\* main.rs should_include_demo: the same statements on its own regex constant
main_should_include_demo(c, filter_ks_only) ==
    LET stripped == strip_content(c)
    IN  IF stripped = EMPTY_EVENTS THEN <<TRUE, NoEvents>>
        ELSE IF filter_ks_only
        THEN LET caps == captures_iter(stripped)
             IN  IF \E k \in 1..Len(caps) :
                        ~eq_ignore_ascii_case(caps[k], KILLSTREAK)
                 THEN <<FALSE, HasCustomBookmark>>
                 ELSE <<TRUE, OnlyKillstreaks>>
        ELSE <<FALSE, HasEvents>>

-----------------------------------------------------------------------------
(* Shared-log variant, the policy: src/src/prec.rs                         *)

KS_KILL == <<"K", "i", "l", "l">>
KS_STREAK == <<"S", "t", "r", "e", "a", "k", ":">>

\* KS_RE.is_match(label): Kill\sStreak:\d+ found anywhere in the label,
\* letters compared as written
KS_RE_is_match(label) ==
    \E i \in 1..Len(label) :
        /\ StartsAt(label, i, KS_KILL)
        /\ i + 4 <= Len(label) /\ is_whitespace(label[i + 4])
        /\ StartsAt(label, i + 5, KS_STREAK)
        /\ i + 12 <= Len(label) /\ label[i + 12] \in Digits

\* Option<&HashSet<&str>>
None == [is_some |-> FALSE]
Some(v) == [is_some |-> TRUE, v |-> v]

\* mutation: an absent entry is treated as an empty label set
prec_should_include_demo_absent_as_empty(evs, filter_ks_only) ==
    IF filter_ks_only
    THEN IF evs.is_some /\ \E event_name \in evs.v : ~KS_RE_is_match(event_name)
         THEN <<FALSE, HasCustomBookmark>>
         ELSE <<TRUE, OnlyKillstreaks>>
    ELSE IF evs.is_some THEN <<FALSE, HasEvents>> ELSE <<TRUE, NoEvents>>

\* prec.rs should_include_demo(events, filter_ks_only) -> (bool, reason)
prec_should_include_demo(evs, filter_ks_only) ==
    IF ~evs.is_some THEN <<TRUE, NoEvents>>
    ELSE IF filter_ks_only
    THEN IF \E event_name \in evs.v : ~KS_RE_is_match(event_name)
         THEN <<FALSE, HasCustomBookmark>>
         ELSE <<TRUE, OnlyKillstreaks>>
    ELSE <<FALSE, HasEvents>>

-----------------------------------------------------------------------------
(* The two policy functions on their own: every input within the bounds    *)

\* what sidecar contents are put together from
P_OPEN == <<"{", "\"", "e", "v", "e", "n", "t", "s", "\"", ":", "[">>
P_CLOSE == <<"]", "}">>
P_SPACE == <<" ">>
P_KS == <<"\"", "K", "i", "l", "l", "s", "t", "r", "e", "a", "k", "\"", ",">>
P_KS_SPACED == <<"\"", "k", "i", "l", "l", " ", "s", "t", "r", "e", "a", "k", "\"", ",">>
P_BOOKMARK == <<"\"", "B", "o", "o", "k", "m", "a", "r", "k", "\"", ",">>

Pieces == {P_OPEN, P_CLOSE, P_SPACE, NAME_KEY, P_KS, P_KS_SPACED, P_BOOKMARK}

Contents ==
    { Concat(ps) : ps \in UNION { [1..n -> Pieces] : n \in 0..MaxPieces } }

\* labels as EVENT_EXTRACT_RE of prec.rs captures them from a log line
L_KS5 == <<"K", "i", "l", "l", " ", "S", "t", "r", "e", "a", "k", ":", "5">>
L_KS12 == <<"K", "i", "l", "l", " ", "S", "t", "r", "e", "a", "k", ":", "1", "2">>
L_KS_LOWER == <<"k", "i", "l", "l", " ", "s", "t", "r", "e", "a", "k", ":", "5">>
L_KS_UPPER == <<"K", "I", "L", "L", " ", "S", "T", "R", "E", "A", "K", ":", "5">>
L_KS_INSIDE == <<"N", "i", "c", "e", " ", "K", "i", "l", "l", " ", "S", "t", "r", "e", "a", "k", ":", "5", " ", "c", "l", "i", "p">>
L_KS_NODIGIT == <<"K", "i", "l", "l", " ", "S", "t", "r", "e", "a", "k", ":">>
L_BOOKMARK == <<"P", "l", "a", "y", "e", "r", " ", "b", "o", "o", "k", "m", "a", "r", "k">>

Labels == {L_KS5, L_KS12, L_KS_LOWER, L_KS_UPPER, L_KS_INSIDE, L_KS_NODIGIT,
           L_BOOKMARK}

LabelSets == { ls \in SUBSET Labels : Cardinality(ls) \in 1..MaxLabels }

collectorVars == <<ci, dirs, json, ks, event_map, walk_dir, idx,
                   included_files, out, result>>
outVars == <<fs, plan, manifest>>

InitFn ==
    /\ mode = "fn"
    /\ filter \in BOOLEAN
    /\ \/ pc = "fn_sidecar" /\ content \in Contents /\ events = None
       \/ pc = "fn_labels" /\ content = <<>>
          /\ events \in {None} \cup { Some(ls) : ls \in LabelSets }
    /\ decision = <<>>
    /\ ci = FALSE /\ dirs = <<>> /\ json = <<>> /\ ks = <<>>
    /\ event_map = {} /\ walk_dir = "" /\ idx = 0
    /\ included_files = <<>> /\ out = <<>> /\ result = "none"
    /\ fs = <<>> /\ plan = <<>> /\ manifest = <<>>

\* should_include_demo of ds.rs and of main.rs applied to one content
FnSidecar ==
    /\ pc = "fn_sidecar"
    /\ decision' = [ds |-> ds_should_include_demo(content, filter),
                    main |-> main_should_include_demo(content, filter)]
    /\ pc' = "fn_done"
    /\ UNCHANGED <<mode, filter, content, events, collectorVars, outVars>>

\* should_include_demo of prec.rs applied to one Option<label set>
FnLabels ==
    /\ pc = "fn_labels"
    /\ decision' = [prec |-> prec_should_include_demo(events, filter)]
    /\ pc' = "fn_done"
    /\ UNCHANGED <<mode, filter, content, events, collectorVars, outVars>>

NextFn == FnSidecar \/ FnLabels

SpecFn == InitFn /\ [][NextFn]_vars

-----------------------------------------------------------------------------
(* Claims about the policy functions (checked under SpecFn)                *)

SidecarDecided == pc = "fn_done" /\ "ds" \in DOMAIN decision
LabelsDecided == pc = "fn_done" /\ "prec" \in DOMAIN decision

\* the values X of the occurrences  "name": "X",  in a text: the key, then
\* optional whitespace, then X between a quote and the first `",` after it
NameOccurrences(s) ==
    { SubSeq(s, a, b - 1) : <<a, b>> \in
        { ab \in (1..(Len(s) + 1)) \X (1..(Len(s) + 1)) :
            /\ ab[1] <= ab[2]
            /\ ab[2] + 1 <= Len(s)
            /\ s[ab[2]] = "\"" /\ s[ab[2] + 1] = ","
            /\ \A r \in ab[1]..(ab[2] - 1) :
                   /\ s[r] # "\n"
                   /\ ~(s[r] = "\"" /\ s[r + 1] = ",")
            /\ ab[1] >= 2 /\ s[ab[1] - 1] = "\""
            /\ \E i \in 1..ab[1] :
                   /\ StartsAt(s, i, NAME_KEY)
                   /\ i + Len(NAME_KEY) <= ab[1] - 1
                   /\ \A r \in (i + Len(NAME_KEY))..(ab[1] - 2) :
                          is_whitespace(s[r]) } }

HasCustomOccurrence(s) ==
    \E x \in NameOccurrences(s) : ~eq_ignore_ascii_case(x, KILLSTREAK)

\* C2 as stated: with filter_killstreak_only, a sidecar whose content as
\* written in the file holds an occurrence "name": "X", with X not
\* "killstreak" in any letter case is excluded with "has custom bookmark".
C2_AsWritten ==
    (SidecarDecided /\ filter /\ HasCustomOccurrence(content))
        => decision.ds = <<FALSE, HasCustomBookmark>>

\* C2 amended: with filter_killstreak_only, a sidecar whose content with all
\* whitespace removed holds an occurrence "name":"X", with X not "killstreak"
\* in any letter case is excluded with "has custom bookmark".
C2_AfterWhitespaceRemoval ==
    (SidecarDecided /\ filter
        /\ HasCustomOccurrence(retain_not_whitespace(content)))
        => decision.ds = <<FALSE, HasCustomBookmark>>

\* a killstreak label is followed by a custom bookmark, and the demo is excluded
C2_Witness ==
    /\ SidecarDecided /\ filter
    /\ content = NAME_KEY \o P_KS \o NAME_KEY \o P_BOOKMARK
    /\ decision.ds = <<FALSE, HasCustomBookmark>>

\* C5: a sidecar whose content equals {"events":[]} once all whitespace is
\* removed is included with "no events", whatever filter_killstreak_only is,
\* by should_include_demo of ds.rs and of main.rs alike.
C5_EmptyEventsIncluded ==
    (SidecarDecided /\ retain_not_whitespace(content) = EMPTY_EVENTS)
        => /\ decision.ds = <<TRUE, NoEvents>>
           /\ decision.main = <<TRUE, NoEvents>>

\* the literal is spread over the file with whitespace in it
C5_Witness ==
    /\ SidecarDecided /\ filter
    /\ content = P_OPEN \o P_SPACE \o P_CLOSE
    /\ decision.ds = <<TRUE, NoEvents>>

\* a label that denotes a killstreak event in any letter case: the whole
\* label is "Kill Streak:" and a number
DenotesKillstreak(label) ==
    LET l == to_lowercase(label)
    IN  /\ Len(l) >= 13
        /\ SubSeq(l, 1, 4) = to_lowercase(KS_KILL)
        /\ is_whitespace(l[5])
        /\ SubSeq(l, 6, 12) = to_lowercase(KS_STREAK)
        /\ \A r \in 13..Len(l) : l[r] \in Digits

\* C4 as stated: shared log, filter_killstreak_only, a demo with labels: it
\* is included with "has only killstreak events" exactly when every label is
\* a "Kill Streak:<number>" label in any letter case, and is excluded with
\* "has custom bookmark" otherwise.
C4_KillstreakLabelsAnyCase ==
    (LabelsDecided /\ filter /\ events.is_some)
        => IF \A l \in events.v : DenotesKillstreak(l)
           THEN decision.prec = <<TRUE, OnlyKillstreaks>>
           ELSE decision.prec = <<FALSE, HasCustomBookmark>>

-----------------------------------------------------------------------------
(* Paths and the file system                                               *)

\* a path is [dir, name]: a directory and a file name in it
Path(d, n) == [dir |-> d, name |-> n]

\* position of the dot that starts the extension, 0 if the name has none
\* (a dot that starts the file name starts no extension)
ExtensionDot(n) ==
    LET dots == { i \in 2..Len(n) : n[i] = "." }
    IN  IF dots = {} THEN 0 ELSE CHOOSE i \in dots : \A j \in dots : j <= i

\* Path::extension
extension(n) ==
    IF ExtensionDot(n) = 0 THEN None
    ELSE Some(SubSeq(n, ExtensionDot(n) + 1, Len(n)))

\* Path::with_extension
with_extension(n, ext) ==
    (IF ExtensionDot(n) = 0 THEN n ELSE SubSeq(n, 1, ExtensionDot(n) - 1))
        \o <<".">> \o ext

EXT_DEM == <<"d", "e", "m">>
EXT_JSON == <<"j", "s", "o", "n">>
DOT_DEM == <<".", "d", "e", "m">>

\* util::is_demo (main.rs has the same function)
is_demo(ext) == ext.is_some /\ ext.v = EXT_DEM

\* Path::exists: the directory holds a file of that name; a case-insensitive
\* file system finds it under any letter case
path_exists(p) ==
    \E k \in 1..Len(dirs[p.dir]) :
        \/ dirs[p.dir][k] = p.name
        \/ ci /\ eq_ignore_ascii_case(dirs[p.dir][k], p.name)

\* const PREC_KS_FILE: &str = "KillStreaks.txt"
PREC_KS_FILE == <<"K", "i", "l", "l", "S", "t", "r", "e", "a", "k", "s", ".", "t", "x", "t">>

\* Path::parent of the chosen directory and of a file in a directory
CHOSEN == "child"
parent_of(d) == IF d = "child" THEN Some("parent") ELSE None

\* mutation: the parent directory is searched first
find_prec_ks_file_parent_first(demos_dir) ==
    LET par == parent_of(demos_dir)
    IN  IF par.is_some /\ path_exists(Path(par.v, PREC_KS_FILE))
        THEN Some(Path(par.v, PREC_KS_FILE))
        ELSE IF path_exists(Path(demos_dir, PREC_KS_FILE))
        THEN Some(Path(demos_dir, PREC_KS_FILE))
        ELSE None

\* prec.rs find_prec_ks_file: the chosen directory, then its parent
find_prec_ks_file(demos_dir) ==
    LET par == parent_of(demos_dir)
    IN  IF path_exists(Path(demos_dir, PREC_KS_FILE))
        THEN Some(Path(demos_dir, PREC_KS_FILE))
        ELSE IF par.is_some /\ path_exists(Path(par.v, PREC_KS_FILE))
        THEN Some(Path(par.v, PREC_KS_FILE))
        ELSE None

\* mutation: a reference to a demo is kept without looking for the file
demo_path_unchecked(p) == TRUE

\* prec.rs line 78: demo_path.exists()
demo_path_exists(p) == path_exists(p)

\* HashMap::get
map_get(m, k) == IF k \in DOMAIN m THEN Some(m[k]) ELSE None

\* event_map.entry(k).or_insert(HashSet::new()).insert(v)
map_insert(m, k, v) ==
    [x \in DOMAIN m \cup {k} |->
        IF x = k THEN (IF k \in DOMAIN m THEN m[k] ELSE {}) \cup {v} ELSE m[x]]

EmptyMap == [x \in {} |-> {}]

\* prec.rs lines 74-87: the loop over the matches of EVENT_EXTRACT_RE; a match
\* is [label, name], the two groups captured from one log line
RECURSIVE extract_events(_, _, _)
extract_events(matches, demos_dir, m) ==
    IF matches = <<>> THEN m
    ELSE LET demo_file_name == to_lowercase(Head(matches).name) \o DOT_DEM
             demo_path == Path(demos_dir, demo_file_name)
         IN  IF ~demo_path_exists(demo_path)
             THEN extract_events(Tail(matches), demos_dir, m)
             ELSE extract_events(Tail(matches), demos_dir,
                                 map_insert(m, demo_path, Head(matches).label))

-----------------------------------------------------------------------------
(* The two collectors                                                      *)

N_a == <<"a", ".", "d", "e", "m">>
N_A == <<"A", ".", "d", "e", "m">>
N_b == <<"b", ".", "d", "e", "m">>
DemoNames == {N_a, N_A, N_b}

\* listings of distinct demo files, in read_dir order
DemoSeqs(max) ==
    { q \in UNION { [1..n -> DemoNames] : n \in 0..max } :
        \A i, j \in 1..Len(q) : i # j => q[i] # q[j] }

\* a case-insensitive file system holds no two names that differ in case only
CaseDistinct(q) ==
    \A i, j \in 1..Len(q) : i # j => ~eq_ignore_ascii_case(q[i], q[j])

\* sidecar contents of the collector runs
SidecarSamples ==
    { EMPTY_EVENTS,
      P_OPEN \o P_SPACE \o P_CLOSE,
      P_OPEN \o NAME_KEY \o P_KS \o P_CLOSE,
      P_OPEN \o NAME_KEY \o P_BOOKMARK \o P_CLOSE,
      P_OPEN,
      <<>> }

Missing == [present |-> FALSE]
Unreadable == [present |-> TRUE, readable |-> FALSE]
Readable(c) == [present |-> TRUE, readable |-> TRUE, content |-> c]
SidecarStates == {Missing, Unreadable} \cup { Readable(c) : c \in SidecarSamples }

\* a directory of demos, each followed by its sidecar when it has one
RECURSIVE ListingOf(_, _)
ListingOf(demos, sc) ==
    IF demos = <<>> THEN <<>>
    ELSE <<Head(demos)>>
         \o (IF Head(sc).present
             THEN <<with_extension(Head(demos), EXT_JSON)>> ELSE <<>>)
         \o ListingOf(Tail(demos), Tail(sc))

\* the matches of EVENT_EXTRACT_RE in a log: (label, demo base name)
LogLabels == {L_KS5, L_BOOKMARK}
LogNames == {<<"a">>, <<"A">>, <<"b">>}
LogMatches == [label : LogLabels, name : LogNames]
Logs == UNION { [1..n -> LogMatches] : n \in 0..MaxLogLines }

fnVars == <<content, events, decision>>

InitCommon ==
    /\ filter \in BOOLEAN
    /\ event_map = EmptyMap /\ walk_dir = CHOSEN /\ idx = 1
    /\ included_files = <<>> /\ out = <<>> /\ result = "none"
    /\ content = <<>> /\ events = None /\ decision = <<>>
    /\ fs = <<>> /\ plan = <<>> /\ manifest = <<>>

\* a directory of demos and sidecars, walked by collect_ds_demos ("ds") or
\* by the loop of process in main.rs ("main")
InitDs ==
    /\ mode \in {"ds", "main"} /\ pc = "walk" /\ ci = FALSE /\ ks = <<>>
    /\ \E demos \in DemoSeqs(MaxDemos) :
         \E sc \in [1..Len(demos) -> SidecarStates] :
            /\ dirs = [child |-> ListingOf(demos, sc), parent |-> <<>>]
            /\ json = [n \in { with_extension(demos[k], EXT_JSON) :
                                 k \in { i \in 1..Len(demos) : sc[i].present } } |->
                         sc[CHOOSE k \in 1..Len(demos) :
                                with_extension(demos[k], EXT_JSON) = n]]
    /\ InitCommon

\* the directory that is not walked holds no demo or one
OtherListings == {<<>>, <<N_a>>}

InitPrec ==
    /\ mode = "prec" /\ pc = "find" /\ ci \in BOOLEAN /\ json = <<>>
    /\ \E at \in SUBSET {"child", "parent"} :
         \E cd \in (IF at = {"parent"} THEN OtherListings ELSE DemoSeqs(MaxDemos)),
            pd \in (IF at = {"parent"} THEN DemoSeqs(MaxDemos) ELSE OtherListings) :
            /\ ci => CaseDistinct(cd) /\ CaseDistinct(pd)
            /\ dirs = [child |-> cd \o (IF "child" \in at
                                        THEN <<PREC_KS_FILE>> ELSE <<>>),
                       parent |-> pd \o (IF "parent" \in at
                                         THEN <<PREC_KS_FILE>> ELSE <<>>)]
            /\ IF at = {} THEN ks = <<>> ELSE ks \in Logs
    /\ InitCommon

Init == InitDs \/ InitPrec

IncludedDemo(reason, path, json_path, id) ==
    [inclusion_reason |-> reason, demo_path |-> path,
     events_json_path |-> json_path, id |-> id]

Skipping(path, reason) == [kind |-> "Skipping", file |-> path, reason |-> reason]

entry_path == Path(walk_dir, dirs[walk_dir][idx])
InWalk == pc = "walk" /\ idx <= Len(dirs[walk_dir])
fixedVars == <<mode, filter, ci, dirs, json, ks, fnVars, outVars>>

\* std::fs::read_dir(demos_dir)? fails: the error is returned
ReadDirFails ==
    /\ pc = "walk" /\ idx = 1
    /\ result' = "Err(read_dir)" /\ pc' = "done"
    /\ UNCHANGED <<fixedVars, event_map, walk_dir, idx, included_files, out>>

\* .filter(|e| util::is_demo(..)): an entry that is no demo is passed over
WalkFiltered ==
    /\ InWalk /\ ~is_demo(extension(entry_path.name))
    /\ idx' = idx + 1
    /\ UNCHANGED <<fixedVars, event_map, walk_dir, included_files, out, result, pc>>

\* the loop is over: Ok(())
WalkDone ==
    /\ pc = "walk" /\ idx > Len(dirs[walk_dir])
    /\ result' = "Ok" /\ pc' = "done"
    /\ UNCHANGED <<fixedVars, event_map, walk_dir, idx, included_files, out>>

json_path == Path(walk_dir, with_extension(entry_path.name, EXT_JSON))

DsEntry == mode = "ds" /\ InWalk /\ is_demo(extension(entry_path.name))

\* ds.rs lines 52-55: no sidecar, a diagnostic, next demo
DsNoJson ==
    /\ DsEntry /\ ~path_exists(json_path)
    /\ out' = Append(out, [kind |-> "Can't find json", file |-> entry_path])
    /\ idx' = idx + 1
    /\ UNCHANGED <<fixedVars, event_map, walk_dir, included_files, result, pc>>

\* mutation: a sidecar that cannot be read ends the collection with the error
DsReadFailedAborts ==
    /\ DsEntry /\ path_exists(json_path) /\ ~json[json_path.name].readable
    /\ result' = "Err(read_to_string)" /\ pc' = "done"
    /\ UNCHANGED <<fixedVars, event_map, walk_dir, idx, included_files, out>>

\* ds.rs lines 57-68, Err arm: (false, "failed to read json"), next demo
DsReadFailed ==
    /\ DsEntry /\ path_exists(json_path) /\ ~json[json_path.name].readable
    /\ out' = Append(out, Skipping(entry_path, ReadFailed))
    /\ idx' = idx + 1
    /\ UNCHANGED <<fixedVars, event_map, walk_dir, included_files, result, pc>>

\* ds.rs lines 57-75, Ok arm: the policy decides, the demo is skipped or pushed
DsDecide ==
    /\ DsEntry /\ path_exists(json_path) /\ json[json_path.name].readable
    /\ LET d == ds_should_include_demo(json[json_path.name].content, filter)
       IN  IF ~d[1]
           THEN /\ out' = Append(out, Skipping(entry_path, d[2]))
                /\ UNCHANGED included_files
           ELSE /\ included_files' = Append(included_files,
                       IncludedDemo(d[2], entry_path, Some(json_path), "demosupport"))
                /\ UNCHANGED out
    /\ idx' = idx + 1
    /\ UNCHANGED <<fixedVars, event_map, walk_dir, result, pc>>

\* struct IncludedFile of main.rs
IncludedFile(reason, path, jpath) ==
    [inclusion_reason |-> reason, demo_path |-> path, events_json_path |-> jpath]

MainEntry == mode = "main" /\ InWalk /\ is_demo(extension(entry_path.name))

\* main.rs lines 220-223: no sidecar, a diagnostic, next demo
MainNoJson ==
    /\ MainEntry /\ ~path_exists(json_path)
    /\ out' = Append(out, [kind |-> "Can't find json", file |-> entry_path])
    /\ idx' = idx + 1
    /\ UNCHANGED <<fixedVars, event_map, walk_dir, included_files, result, pc>>

\* main.rs lines 225-236, Err arm: (false, "failed to read json"), next demo
MainReadFailed ==
    /\ MainEntry /\ path_exists(json_path) /\ ~json[json_path.name].readable
    /\ out' = Append(out, Skipping(entry_path, ReadFailed))
    /\ idx' = idx + 1
    /\ UNCHANGED <<fixedVars, event_map, walk_dir, included_files, result, pc>>

\* main.rs lines 225-242, Ok arm: the policy decides, the demo is skipped or pushed
MainDecide ==
    /\ MainEntry /\ path_exists(json_path) /\ json[json_path.name].readable
    /\ LET d == main_should_include_demo(json[json_path.name].content, filter)
       IN  IF ~d[1]
           THEN /\ out' = Append(out, Skipping(entry_path, d[2]))
                /\ UNCHANGED included_files
           ELSE /\ included_files' = Append(included_files,
                       IncludedFile(d[2], entry_path, json_path))
                /\ UNCHANGED out
    /\ idx' = idx + 1
    /\ UNCHANGED <<fixedVars, event_map, walk_dir, result, pc>>

\* prec.rs lines 53-68: the log is looked for; without it nothing is collected
PrecFindKsFile ==
    /\ mode = "prec" /\ pc = "find"
    /\ LET ks_file == find_prec_ks_file(CHOSEN)
       IN  IF ~ks_file.is_some
           THEN /\ out' = Append(out, [kind |-> "Failed to find PREC event log file"])
                /\ result' = "Ok" /\ pc' = "done"
                /\ UNCHANGED walk_dir
           ELSE /\ walk_dir' = ks_file.v.dir
                /\ pc' = "read"
                /\ UNCHANGED <<out, result>>
    /\ UNCHANGED <<fixedVars, event_map, idx, included_files>>

\* prec.rs line 69: read_to_string(&ks_file)? fails: the error is returned
PrecReadFails ==
    /\ mode = "prec" /\ pc = "read"
    /\ result' = "Err(read_to_string)" /\ pc' = "done"
    /\ UNCHANGED <<fixedVars, event_map, walk_dir, idx, included_files, out>>

\* prec.rs lines 69-87: the log is read and the whole mapping is built
PrecExtract ==
    /\ mode = "prec" /\ pc = "read"
    /\ event_map' = extract_events(ks, walk_dir, EmptyMap)
    /\ pc' = "walk"
    /\ UNCHANGED <<fixedVars, walk_dir, idx, included_files, out, result>>

\* prec.rs lines 93-109: the policy decides on the demo's entry of the mapping
PrecDecide ==
    /\ mode = "prec" /\ InWalk /\ is_demo(extension(entry_path.name))
    /\ LET d == prec_should_include_demo(map_get(event_map, entry_path), filter)
       IN  IF ~d[1]
           THEN /\ out' = Append(out, Skipping(entry_path, d[2]))
                /\ UNCHANGED included_files
           ELSE /\ included_files' = Append(included_files,
                       IncludedDemo(d[2], entry_path, None, "prec"))
                /\ UNCHANGED out
    /\ idx' = idx + 1
    /\ UNCHANGED <<fixedVars, event_map, walk_dir, result, pc>>

Next ==
    \/ ReadDirFails \/ WalkFiltered \/ WalkDone
    \/ DsNoJson \/ DsReadFailed \/ DsDecide
    \/ MainNoJson \/ MainReadFailed \/ MainDecide
    \/ PrecFindKsFile \/ PrecReadFails \/ PrecExtract \/ PrecDecide

Spec == Init /\ [][Next]_vars

-----------------------------------------------------------------------------
(* Claims about the collectors (checked under Spec)                        *)

\* the directory entries the walk has dealt with so far
Visited ==
    IF pc \in {"walk", "done"}
    THEN { k \in 1..Len(dirs[walk_dir]) : k < idx }
    ELSE {}

VisitedDemos ==
    { Path(walk_dir, dirs[walk_dir][k]) : k \in
        { v \in Visited : extension(dirs[walk_dir][v]) = Some(EXT_DEM) } }

\* what was decided about a demo: (TRUE, reason) if a record was pushed,
\* (FALSE, reason) if "Skipping <file>: <reason>" was printed
DecisionsOf(p) ==
    { <<TRUE, included_files[k].inclusion_reason>> : k \in
        { i \in 1..Len(included_files) : included_files[i].demo_path = p } }
    \cup
    { <<FALSE, out[k].reason>> : k \in
        { i \in 1..Len(out) : out[i].kind = "Skipping" /\ out[i].file = p } }

\* the file is in its directory (under any letter case if the file system
\* compares names so)
OnDisk(p) ==
    \E k \in 1..Len(dirs[p.dir]) :
        \/ dirs[p.dir][k] = p.name
        \/ ci /\ to_lowercase(dirs[p.dir][k]) = to_lowercase(p.name)

SidecarOf(p) == with_extension(p.name, EXT_JSON)
SidecarRead(p) == SidecarOf(p) \in DOMAIN json /\ json[SidecarOf(p)].readable

\* the log matches that name demo p by its base name, in any letter case
ReferencesTo(p) ==
    { k \in 1..Len(ks) :
        to_lowercase(ks[k].name \o DOT_DEM) = to_lowercase(p.name) }

\* C1 as stated: in both collectors and for either flag, a demo for which no
\* label is extracted (sidecar: the empty-events literal, or content without
\* any "name": "<value>", match; shared log: no entry references the demo) is
\* included with "no events".
C1_NoLabelsNoEvents ==
    \A p \in VisitedDemos :
        /\ (mode \in {"ds", "main"} /\ SidecarRead(p)
              /\ \/ retain_not_whitespace(json[SidecarOf(p)].content) = EMPTY_EVENTS
                 \/ NameOccurrences(json[SidecarOf(p)].content) = {})
             => DecisionsOf(p) = {<<TRUE, NoEvents>>}
        /\ (mode = "prec" /\ ReferencesTo(p) = {})
             => DecisionsOf(p) = {<<TRUE, NoEvents>>}

\* C1 amended: in both collectors and for either flag, a demo is included
\* with "no events" when (sidecar) the content with all whitespace removed is
\* the empty-events literal, or (shared log) no log entry references the demo.
C1_EmptyLiteralOrUnreferenced ==
    \A p \in VisitedDemos :
        /\ (mode \in {"ds", "main"} /\ SidecarRead(p)
              /\ retain_not_whitespace(json[SidecarOf(p)].content) = EMPTY_EVENTS)
             => DecisionsOf(p) = {<<TRUE, NoEvents>>}
        /\ (mode = "prec" /\ ReferencesTo(p) = {})
             => DecisionsOf(p) = {<<TRUE, NoEvents>>}

\* the log names another demo only, and the flag is set
C1_Witness ==
    /\ mode = "prec" /\ pc = "done" /\ filter /\ ks # <<>>
    /\ \E p \in VisitedDemos :
          /\ ReferencesTo(p) = {}
          /\ DecisionsOf(p) = {<<TRUE, NoEvents>>}
    /\ \E p \in VisitedDemos : ReferencesTo(p) # {}

\* C6: under the default policy (flag not set) every demo that has a label is
\* excluded with "has events": in the sidecar collector every demo whose
\* readable sidecar is not the empty-events literal, in the shared-log
\* collector every demo with an entry in the mapping.
C6_DefaultPolicyHasEvents ==
    ~filter =>
      \A p \in VisitedDemos :
        /\ (mode \in {"ds", "main"} /\ SidecarRead(p)
              /\ retain_not_whitespace(json[SidecarOf(p)].content) # EMPTY_EVENTS)
             => DecisionsOf(p) = {<<FALSE, HasEvents>>}
        /\ (mode = "prec" /\ p \in DOMAIN event_map)
             => DecisionsOf(p) = {<<FALSE, HasEvents>>}

\* a sidecar with killstreak events only is excluded under the default policy
C6_Witness ==
    /\ mode = "ds" /\ ~filter /\ pc = "done"
    /\ \E p \in VisitedDemos :
          /\ SidecarRead(p)
          /\ json[SidecarOf(p)].content = P_OPEN \o NAME_KEY \o P_KS \o P_CLOSE
          /\ DecisionsOf(p) = {<<FALSE, HasEvents>>}

\* C3 as stated: a log entry that names a demo by base name in any letter
\* case is associated with the demo file of the resolved directory whose name
\* equals it case-insensitively: the file's path has the entry's label in the
\* mapping, and the walk does not decide "no events" for it.
C3_AssociatedInAnyCase ==
    mode = "prec" =>
      \A p \in VisitedDemos : \A k \in ReferencesTo(p) :
        /\ p \in DOMAIN event_map
        /\ ks[k].label \in event_map[p]
        /\ DecisionsOf(p) = {IF filter
                             THEN (IF \A j \in ReferencesTo(p) : ks[j].label = L_KS5
                                   THEN <<TRUE, OnlyKillstreaks>>
                                   ELSE <<FALSE, HasCustomBookmark>>)
                             ELSE <<FALSE, HasEvents>>}

\* the path a log match is stored under
KeyOf(m) == Path(walk_dir, to_lowercase(m.name) \o DOT_DEM)

\* C7: after the bulk extraction every key of the mapping is the path of a
\* file that exists in the resolved directory and holds the labels of the
\* entries that name it, nothing else; an entry that references a demo with
\* no such file adds no key; a demo is decided "no events" exactly when no
\* entry is stored under its path.
C7_KeysExist ==
    (mode = "prec" /\ pc \in {"walk", "done"}) =>
        /\ \A key \in DOMAIN event_map :
              /\ key.dir = walk_dir
              /\ OnDisk(key)
              /\ event_map[key] =
                    { ks[k].label : k \in { i \in 1..Len(ks) : KeyOf(ks[i]) = key } }
        /\ \A k \in 1..Len(ks) :
              ~OnDisk(KeyOf(ks[k])) => KeyOf(ks[k]) \notin DOMAIN event_map
        /\ \A p \in VisitedDemos :
              (DecisionsOf(p) = {<<TRUE, NoEvents>>})
                  <=> ~\E k \in 1..Len(ks) : KeyOf(ks[k]) = p

\* the log names a demo that is there and one that is not
C7_Witness ==
    /\ mode = "prec" /\ pc = "done" /\ result = "Ok"
    /\ \E k \in 1..Len(ks) : ~OnDisk(KeyOf(ks[k]))
    /\ Cardinality(DOMAIN event_map) = 1
    /\ Len(included_files) + Len(out) = 2

LogIn(d) == \E k \in 1..Len(dirs[d]) : dirs[d][k] = PREC_KS_FILE

\* C8: the log is looked up in the chosen directory first and in its parent
\* second; the directory walked, and the directory of every key, is the one
\* that holds the log found; with the log in the parent only, every record
\* pushed and every demo skipped lies in the parent.
C8_WalkRootIsLogDir ==
    (mode = "prec" /\ pc # "find") =>
        /\ LogIn(CHOSEN) => walk_dir = CHOSEN
        /\ (~LogIn(CHOSEN) /\ LogIn("parent")) => walk_dir = "parent"
        /\ (~LogIn(CHOSEN) /\ ~LogIn("parent")) =>
              pc = "done" /\ result = "Ok" /\ included_files = <<>>
        /\ \A key \in DOMAIN event_map : key.dir = walk_dir
        /\ \A k \in 1..Len(included_files) :
              included_files[k].demo_path.dir = walk_dir
        /\ \A k \in 1..Len(out) :
              out[k].kind = "Skipping" => out[k].file.dir = walk_dir
        /\ (pc = "done" /\ result = "Ok" /\ (LogIn(CHOSEN) \/ LogIn("parent"))) =>
              Len(included_files) + Len(out) =
                  Cardinality({ k \in 1..Len(dirs[walk_dir]) :
                                  extension(dirs[walk_dir][k]) = Some(EXT_DEM) })

\* the log is in the parent only; the parent's demo is included, the chosen
\* directory's demos are not looked at
C8_Witness ==
    /\ mode = "prec" /\ pc = "done" /\ result = "Ok"
    /\ ~LogIn(CHOSEN) /\ LogIn("parent")
    /\ \E k \in 1..Len(dirs[CHOSEN]) : extension(dirs[CHOSEN][k]) = Some(EXT_DEM)
    /\ Len(included_files) = 1 /\ included_files[1].demo_path.dir = "parent"
    /\ Len(out) = 1 /\ out[1].kind = "Skipping"

\* a demo of the listing whose sidecar is missing or cannot be read
DemosOf(listing) ==
    SelectSeq(listing, LAMBDA n : extension(n) = Some(EXT_DEM))
HasNoSidecar(n) == with_extension(n, EXT_JSON) \notin DOMAIN json
HasUnreadableSidecar(n) ==
    ~HasNoSidecar(n) /\ ~json[with_extension(n, EXT_JSON)].readable
Failing(n) == HasNoSidecar(n) \/ HasUnreadableSidecar(n)

\* the decisions of a walk over demos whose sidecars can all be read
RECURSIVE WalkOf(_)
WalkOf(demos) ==
    IF demos = <<>> THEN [inc |-> <<>>, skip |-> <<>>]
    ELSE LET n == Head(demos)
             c == json[with_extension(n, EXT_JSON)].content
             jp == Path(CHOSEN, with_extension(n, EXT_JSON))
             d == IF mode = "ds" THEN ds_should_include_demo(c, filter)
                  ELSE main_should_include_demo(c, filter)
             rec == IF mode = "ds"
                    THEN IncludedDemo(d[2], Path(CHOSEN, n), Some(jp), "demosupport")
                    ELSE IncludedFile(d[2], Path(CHOSEN, n), jp)
             rest == WalkOf(Tail(demos))
         IN  IF d[1]
             THEN [inc |-> <<rec>> \o rest.inc, skip |-> rest.skip]
             ELSE [inc |-> rest.inc,
                   skip |-> <<Skipping(Path(CHOSEN, n), d[2])>> \o rest.skip]

\* C9: in the sidecar collector (ds.rs, and the same loop in main.rs) a demo
\* whose sidecar is missing or cannot be read is not included (unreadable:
\* "failed to read json" is printed), the collector does not fail over it,
\* and the records pushed and the skips printed for the other demos are those
\* of a walk over the directory without the failing demos, in the same order.
C9_FailingDemoIsLocal ==
    mode \in {"ds", "main"} =>
        /\ result \in {"none", "Ok", "Err(read_dir)"}
        /\ \A k \in 1..Len(included_files) :
              ~Failing(included_files[k].demo_path.name)
        /\ (pc = "done" /\ result = "Ok") =>
              LET healthy == SelectSeq(DemosOf(dirs[CHOSEN]), LAMBDA n : ~Failing(n))
                  others == SelectSeq(out, LAMBDA o : ~Failing(o.file.name))
              IN  /\ included_files = WalkOf(healthy).inc
                  /\ others = WalkOf(healthy).skip
                  /\ \A k \in 1..Len(dirs[CHOSEN]) :
                        LET n == dirs[CHOSEN][k]
                        IN  /\ (extension(n) = Some(EXT_DEM) /\ HasUnreadableSidecar(n))
                                => \E i \in 1..Len(out) :
                                      out[i] = Skipping(Path(CHOSEN, n), ReadFailed)
                            /\ (extension(n) = Some(EXT_DEM) /\ HasNoSidecar(n))
                                => \E i \in 1..Len(out) :
                                      out[i] = [kind |-> "Can't find json",
                                                file |-> Path(CHOSEN, n)]

\* the first demo's sidecar cannot be read, the second demo is included
C9_Witness ==
    /\ mode = "ds" /\ pc = "done" /\ result = "Ok"
    /\ Len(DemosOf(dirs[CHOSEN])) = 2
    /\ HasUnreadableSidecar(DemosOf(dirs[CHOSEN])[1])
    /\ Len(included_files) = 1
    /\ included_files[1].demo_path.name = DemosOf(dirs[CHOSEN])[2]

-----------------------------------------------------------------------------
(* The output stage: src/src/main.rs                                       *)

\* the file a path of the demos directory held when the records were made;
\* a copy is another file
Original(p) == [orig |-> p, copy |-> FALSE]
CopyOf(f) == [orig |-> f.orig, copy |-> TRUE]

\* std::fs::rename(from, to): the file is at `to` afterwards, and `to` alone
fs_rename(files, from, to) ==
    [p \in (DOMAIN files \ {from}) \cup {to} |->
        IF p = to THEN files[from] ELSE files[p]]

\* std::fs::copy(from, to): `to` holds a copy, `from` stays
fs_copy(files, from, to) ==
    [p \in DOMAIN files \cup {to} |->
        IF p = to /\ to # from THEN CopyOf(files[from]) ELSE files[p]]

\* main.rs lines 95-102: file_op is copy or rename
file_op(copy, files, from, to) ==
    IF copy THEN fs_copy(files, from, to) ELSE fs_rename(files, from, to)

\* mutation: the record follows the file on a copy too
path_after_op_always_new(copy, old_path, new_path) == new_path

\* main.rs lines 109-111 and 117-119: if !copy { file.<path> = new_path }
path_after_op(copy, old_path, new_path) ==
    IF ~copy THEN new_path ELSE old_path

OUT_DIR == "output"

DirText(d) ==
    IF d = CHOSEN THEN <<"d", "e", "m", "o", "s">>
    ELSE IF d = OUT_DIR THEN <<"d", "e", "m", "o", "s", "/", "d", "e", "m", "c", "l", "e", "a", "n", "-", "o", "u", "t">>
    ELSE <<".", ".">>

\* path.to_str().unwrap().bytes(): directory, separator, file name
path_to_bytes(p) == DirText(p.dir) \o <<"/">> \o p.name

\* main.rs lines 160-170: the lines written for the records, in order
RECURSIVE export_lines(_, _)
export_lines(files, include_json) ==
    IF files = <<>> THEN <<>>
    ELSE <<path_to_bytes(Head(files).demo_path)>>
         \o (IF include_json
             THEN <<path_to_bytes(Head(files).events_json_path)>> ELSE <<>>)
         \o export_lines(Tail(files), include_json)

NotWritten == [written |-> FALSE]
Written(lines) == [written |-> TRUE, lines |-> lines]

\* the selections of the MultiSelect prompt, in the order of its options
Selections ==
    {<<>>, <<"MoveCopy">>, <<"Export">>, <<"MoveCopy", "Export">>}

InitOut ==
    /\ mode = "out" /\ pc = "actions" /\ filter \in BOOLEAN
    /\ \E demos \in DemoSeqs(MaxFiles) :
          /\ included_files =
                [k \in 1..Len(demos) |->
                    IncludedFile(NoEvents, Path(CHOSEN, demos[k]),
                                 Path(CHOSEN, with_extension(demos[k], EXT_JSON)))]
          /\ \E already \in SUBSET { Path(OUT_DIR, n) : n \in {N_a} } :
                fs = [p \in { Path(CHOSEN, demos[k]) : k \in 1..Len(demos) }
                            \cup { Path(CHOSEN, with_extension(demos[k], EXT_JSON)) :
                                     k \in 1..Len(demos) }
                            \cup already |->
                        Original(p)]
    /\ plan \in [actions : Selections, output_dir : {OUT_DIR, CHOSEN},
                 dir_exists : BOOLEAN, copy : BOOLEAN, include_json : BOOLEAN]
    /\ (plan.output_dir = CHOSEN \/ \E p \in DOMAIN fs : p.dir = OUT_DIR)
            => plan.dir_exists
    /\ manifest = NotWritten
    /\ idx = 1 /\ result = "none" /\ out = <<>>
    /\ ci = FALSE /\ dirs = <<>> /\ json = <<>> /\ ks = <<>>
    /\ event_map = EmptyMap /\ walk_dir = CHOSEN
    /\ content = <<>> /\ events = None /\ decision = <<>>

outFixed == <<mode, filter, ci, dirs, json, ks, event_map, walk_dir, out, fnVars>>

\* main.rs lines 245-248: nothing was included, Ok(())
OutNoFiles ==
    /\ mode = "out" /\ pc = "actions" /\ included_files = <<>>
    /\ result' = "Ok" /\ pc' = "done"
    /\ UNCHANGED <<outFixed, included_files, idx, outVars>>

\* main.rs lines 266-273: every selected action has run, Ok(())
OutDone ==
    /\ mode = "out" /\ pc = "actions" /\ included_files # <<>>
    /\ plan.actions = <<>>
    /\ result' = "Ok" /\ pc' = "done"
    /\ UNCHANGED <<outFixed, included_files, idx, outVars>>

StartsAction(a) ==
    /\ mode = "out" /\ pc = "actions" /\ included_files # <<>>
    /\ plan.actions # <<>> /\ Head(plan.actions) = a

\* main.rs lines 83-85: create_dir(output_dir)? fails
McCreateDirFails ==
    /\ StartsAction("MoveCopy") /\ ~plan.dir_exists
    /\ result' = "Err(create_dir)" /\ pc' = "done"
    /\ UNCHANGED <<outFixed, included_files, idx, outVars>>

\* main.rs lines 75-102: the output directory is there, the file loop begins
McPrepare ==
    /\ StartsAction("MoveCopy")
    /\ plan' = [plan EXCEPT !.dir_exists = TRUE]
    /\ idx' = 1 /\ pc' = "mc_demo"
    /\ UNCHANGED <<outFixed, included_files, fs, manifest, result>>

InFileLoop(at) == mode = "out" /\ pc = at /\ idx <= Len(included_files)

demo_new_path ==
    Path(plan.output_dir, included_files[idx].demo_path.name)
json_new_path ==
    Path(plan.output_dir, included_files[idx].events_json_path.name)

\* main.rs line 107: file_op(&file.demo_path, &new_path)? fails
McDemoFails ==
    /\ InFileLoop("mc_demo")
    /\ result' = "Err(file_op)" /\ pc' = "done"
    /\ UNCHANGED <<outFixed, included_files, idx, outVars>>

\* main.rs lines 105-111: the demo is moved or copied, the record follows a move
McDemo ==
    /\ InFileLoop("mc_demo")
    /\ fs' = file_op(plan.copy, fs, included_files[idx].demo_path, demo_new_path)
    /\ included_files' = [included_files EXCEPT ![idx].demo_path =
            path_after_op(plan.copy, included_files[idx].demo_path, demo_new_path)]
    /\ pc' = "mc_json"
    /\ UNCHANGED <<outFixed, idx, plan, manifest, result>>

\* main.rs line 115: file_op(&file.events_json_path, &new_path)? fails
McJsonFails ==
    /\ InFileLoop("mc_json")
    /\ result' = "Err(file_op)" /\ pc' = "done"
    /\ UNCHANGED <<outFixed, included_files, idx, outVars>>

\* main.rs lines 113-119: the same for the sidecar, then the next record
McJson ==
    /\ InFileLoop("mc_json")
    /\ fs' = file_op(plan.copy, fs, included_files[idx].events_json_path,
                     json_new_path)
    /\ included_files' = [included_files EXCEPT ![idx].events_json_path =
            path_after_op(plan.copy, included_files[idx].events_json_path,
                          json_new_path)]
    /\ idx' = idx + 1 /\ pc' = "mc_demo"
    /\ UNCHANGED <<outFixed, plan, manifest, result>>

\* main.rs lines 122-133: the loop is over, the action returns Ok(())
McDone ==
    /\ mode = "out" /\ pc = "mc_demo" /\ idx > Len(included_files)
    /\ plan' = [plan EXCEPT !.actions = Tail(plan.actions)]
    /\ pc' = "actions"
    /\ UNCHANGED <<outFixed, included_files, idx, fs, manifest, result>>

\* main.rs lines 148-152: the manifest cannot be opened
ExportOpenFails ==
    /\ StartsAction("Export")
    /\ result' = "Err(open)" /\ pc' = "done"
    /\ UNCHANGED <<outFixed, included_files, idx, outVars>>

\* main.rs lines 136-177: action_export writes the manifest
Export ==
    /\ StartsAction("Export")
    /\ manifest' = Written(export_lines(included_files, plan.include_json))
    /\ plan' = [plan EXCEPT !.actions = Tail(plan.actions)]
    /\ UNCHANGED <<outFixed, included_files, idx, fs, result, pc>>

NextOut ==
    \/ OutNoFiles \/ OutDone
    \/ McCreateDirFails \/ McPrepare
    \/ McDemoFails \/ McDemo \/ McJsonFails \/ McJson \/ McDone
    \/ ExportOpenFails \/ Export

SpecOut == InitOut /\ [][NextOut]_vars

-----------------------------------------------------------------------------
(* Claim about the output stage (checked under SpecOut)                    *)

\* the files of record k as they were collected
DemoOf(k) == Original(Path(CHOSEN, included_files[k].demo_path.name))
SidecarFileOf(k) ==
    Original(Path(CHOSEN, included_files[k].events_json_path.name))

\* C10: at every point of the output stage, also after a file operation has
\* failed, each record's demo_path and events_json_path name the place where
\* that file is: the output directory once the file was moved, the place it
\* was collected at before that and after a copy (the loop has dealt with the
\* records before idx); a manifest that was written
\* holds these paths, one per line, in record order.
C10_RecordsNameTheFiles ==
    mode = "out" =>
        /\ \A k \in 1..Len(included_files) :
              LET r == included_files[k]
              IN  /\ r.demo_path \in DOMAIN fs /\ fs[r.demo_path] = DemoOf(k)
                  /\ r.events_json_path \in DOMAIN fs
                  /\ fs[r.events_json_path] = SidecarFileOf(k)
                  /\ (~plan.copy /\ k < idx) =>
                        /\ r.demo_path.dir = plan.output_dir
                        /\ r.events_json_path.dir = plan.output_dir
                  /\ (plan.copy \/ k > idx) =>
                        /\ r.demo_path.dir = CHOSEN
                        /\ r.events_json_path.dir = CHOSEN
        /\ manifest.written =>
              /\ Len(manifest.lines) =
                    Len(included_files) * (IF plan.include_json THEN 2 ELSE 1)
              /\ \A k \in 1..Len(included_files) :
                    LET at == IF plan.include_json THEN 2 * k - 1 ELSE k
                    IN  /\ manifest.lines[at] =
                              DirText(included_files[k].demo_path.dir) \o <<"/">>
                                  \o included_files[k].demo_path.name
                        /\ plan.include_json =>
                              manifest.lines[at + 1] =
                                  DirText(included_files[k].events_json_path.dir)
                                      \o <<"/">>
                                      \o included_files[k].events_json_path.name

\* two records were moved to the output directory and the manifest lists the
\* four moved files
C10_Witness ==
    /\ mode = "out" /\ pc = "done" /\ result = "Ok"
    /\ ~plan.copy /\ plan.output_dir = OUT_DIR /\ plan.include_json
    /\ Len(included_files) = 2
    /\ \A k \in 1..2 : included_files[k].demo_path.dir = OUT_DIR
    /\ manifest.written /\ Len(manifest.lines) = 4
    /\ manifest.lines[3] = path_to_bytes(included_files[2].demo_path)

====
